---- MODULE Spec2Model ----
(***************************************************************************)
(* A model of the secure transport of the bluetooth-wifi-setup add-on:     *)
(* NonceCounter and PiInfo (app/crypto/utils.py), BTCrypto                 *)
(* (app/crypto/core.py), RequestCounter and BTCryptoManager                *)
(* (app/crypto/manager.py), Notifications and WifiDataCharacteristic       *)
(* (app/ble/service.py).                                                   *)
(*                                                                         *)
(* Byte strings are modelled by their split on the separator 0x1E: a       *)
(* non-empty sequence of separator-free strings, so b"" is <<"">> and      *)
(* b"\x1eLockRequest" is <<"", "LockRequest">>.  A 12-byte nonce is the    *)
(* pair of its two slices, [ctr |-> bytes 0..7, id |-> bytes 8..11].       *)
(* The two ciphers are symbolic: a ciphertext names the cipher that made   *)
(* it, its nonce and its plaintext, and only that cipher opens it.         *)
(***************************************************************************)
EXTENDS Integers, Sequences, FiniteSets, TLC

\* ------------------------------------------------------------- bounds
\* Width of the device's message counter.  The source counts in 64 bits;
\* the model keeps the wrap-around arithmetic and scales the width.
NonceBits == 5
\* Highest counter value from which the transport model still encrypts.
MaxNonce == 6
\* Peer identifiers and peer counters of the replay-table model.
NumPeers == 2
MaxCtr == 7
MaxLog == 3
\* Peer counters, queue length, retry value and pump timers of the
\* transport model.
SysMaxCtr == 1
MaxQueue == 2
MaxVal == 3
MaxTimers == 1
\* ASCII characters in front of the texts given to make_chunks.
MaxLead == 2
\* Highest multipart sequence number setJsonNotification is called with.
MaxSeq == 4
\* Scan threads alive at once.
MaxScans == 1
\* MQTT command handlers in flight for one device address
MaxCommands == 2

\* ------------------------------------------------- program constants
MAXNONCE == 2^NonceBits - 1
max_garbled == 2
max_request == 3

PeerIds == 1..NumPeers
SysPeerIds == {1}

\* ------------------------------------------------------- NonceCounter
\* NonceCounter.increment: the new counter, and whether it looped.
increment(n) == IF n >= MAXNONCE THEN 0 ELSE n + 1

incrementLoops(n) == n >= MAXNONCE

next_even_single(n) == increment(n)

\* NonceCounter.next_even: one increment, and a second one when odd.
next_even(n) ==
  LET a == increment(n)
  IN  IF a % 2 > 0 THEN increment(a) ELSE a

\* Whether next_even sets self.looped.
next_even_loops(n) ==
  \/ incrementLoops(n)
  \/ (increment(n) % 2 > 0 /\ incrementLoops(increment(n)))

EmptyDict == [i \in {} |-> 0]

DictPut(d, id, c) == [i \in (DOMAIN d) \cup {id} |-> IF i = id THEN c ELSE d[i]]

checkLastReceived_lax(d, nonce) ==
  IF nonce.id \notin DOMAIN d
    THEN [ok |-> TRUE, dict |-> DictPut(d, nonce.id, nonce.ctr)]
    ELSE IF nonce.ctr < d[nonce.id]
      THEN [ok |-> FALSE, dict |-> d]
      ELSE [ok |-> TRUE, dict |-> DictPut(d, nonce.id, nonce.ctr)]

\* NonceCounter.checkLastReceived: the verdict and the table after it.
checkLastReceived(d, nonce) ==
  IF nonce.id \notin DOMAIN d
    THEN [ok |-> TRUE, dict |-> DictPut(d, nonce.id, nonce.ctr)]
    ELSE IF nonce.ctr <= d[nonce.id]
      THEN [ok |-> FALSE, dict |-> d]
      ELSE [ok |-> TRUE, dict |-> DictPut(d, nonce.id, nonce.ctr)]

removeIdentifier_all(d, nonce) == EmptyDict

\* NonceCounter.removeIdentifier: dict.pop(key, None).
removeIdentifier(d, nonce) == [i \in (DOMAIN d) \ {nonce.id} |-> d[i]]

\* ----------------------------------------------------- RequestCounter
\* RequestCounter.incrementCounter: the counter after it and its result.
incrementCounter(rc, what_kind) ==
  IF rc.kind = "normal"
    THEN [kind |-> what_kind, val |-> 0, reached |-> FALSE]
    ELSE LET v == rc.val + 1
         IN  [kind |-> rc.kind, val |-> v,
              reached |-> IF rc.kind = "garbled" THEN v > max_garbled
                                                 ELSE v > max_request]

\* RequestCounter.resetCounter, on the manager's record.
resetCounter(s) == [s EXCEPT !.kind = "normal", !.val = 0]

\* ------------------------------------------------------------- PiInfo
\* The state document infopi.json: absent, valid, or corrupt in one of the
\* ways json.load / dict[...] can fail ("nononce" holds "locked" only).
DiskDoc(k, l, n) == [kind |-> k, locked |-> l, last_nonce |-> n]

saveInfo_nolock(s) ==
  [s EXCEPT !.disk = DiskDoc("valid", s.disk.locked, s.last_nonce)]

\* PiInfo.saveInfo: writes {"locked", "last_nonce"} from memory.
saveInfo(s) ==
  [s EXCEPT !.disk = DiskDoc("valid", s.locked, s.last_nonce)]

\* ------------------------------------------------------------ byte strings
SEP_unknown == <<"", "unknown">>
LockRequestBytes == <<"", "LockRequest">>
NoBytes == <<"">>
quitting_msg == <<"#ssid-endBT#", "#pw-endBT#">>
\* A field of bytes that bytes.decode("utf8") turns down.
NotUtf8 == "\\xee\\x01\\x99"

\* Bytes handed to the notify channel: the marker byte 0x1D when present,
\* the cipher that made them ("none" for clear text), the nonce prefix and
\* the text.
ClearFrame(message) ==
  [marker |-> "", cipher |-> "none", nonce |-> 0, text |-> message]

CipherBytes(useAES, n, message) ==
  [marker |-> "", cipher |-> IF useAES THEN "aes" ELSE "chacha",
   nonce |-> n, text |-> message]

EmptyFrame == ClearFrame(NoBytes)

\* The first byte of a frame: 0x1D, the separator 0x1E, or something else.
FirstByte(f) ==
  IF f.marker = "1D" THEN "1D"
  ELSE IF f.cipher = "none" /\ Len(f.text) > 1 /\ f.text[1] = "" THEN "1E"
  ELSE "other"

\* ------------------------------------------------------------ BTCrypto
\* The bytes after the nonce have a length that is a multiple of 16 and,
\* run through AES-CBC under the device's key, end in PKCS7 padding.  It
\* holds of about one in 256 byte strings of such a length, whoever made
\* them.
Pads(cypher) == "pad" \in DOMAIN cypher /\ cypher.pad

\* AndroidAES.decrypt: CBC carries no authentication tag, so it returns for
\* every ciphertext AndroidAES.encrypt made under the key and for every
\* other byte string that unpads, and raises for the rest.
AndroidAES_decrypt(cypher) ==
  IF cypher.t = "cipher" /\ cypher.aes
    THEN [raised |-> FALSE, plaintext |-> cypher.plain]
    ELSE IF Pads(cypher)
      THEN [raised |-> FALSE, plaintext |-> <<NotUtf8>>]
      ELSE [raised |-> TRUE, plaintext |-> NoBytes]

\* BTCrypto.decryptAES: useAES is set before the replay check.
decryptAES(s, cypher) ==
  IF ~AndroidAES_decrypt(cypher).raised
    THEN LET chk == checkLastReceived(s.dict, cypher.nonce)
         IN  [raised |-> FALSE,
              msg |-> IF chk.ok THEN AndroidAES_decrypt(cypher).plaintext
                                ELSE NoBytes,
              s |-> [s EXCEPT !.useAES = TRUE, !.dict = chk.dict]]
    ELSE [raised |-> TRUE, msg |-> NoBytes, s |-> s]

decryptChaCha_nocheck(s, cypher) ==
  IF cypher.t = "cipher" /\ ~cypher.aes
    THEN [raised |-> FALSE, msg |-> cypher.plain,
          s |-> [s EXCEPT !.useAES = FALSE,
                          !.dict = checkLastReceived(s.dict, cypher.nonce).dict]]
    ELSE [raised |-> TRUE, msg |-> NoBytes, s |-> s]

\* BTCrypto.decryptChaCha.
decryptChaCha(s, cypher) ==
  IF cypher.t = "cipher" /\ ~cypher.aes
    THEN LET chk == checkLastReceived(s.dict, cypher.nonce)
         IN  [raised |-> FALSE,
              msg |-> IF chk.ok THEN cypher.plain ELSE NoBytes,
              s |-> [s EXCEPT !.useAES = FALSE, !.dict = chk.dict]]
    ELSE [raised |-> TRUE, msg |-> NoBytes, s |-> s]

\* BTCrypto.decryptFromReceived: the remembered cipher first, then the other.
decryptFromReceived(s, cypher) ==
  IF s.useAES
    THEN LET a == decryptAES(s, cypher)
         IN  IF a.raised THEN decryptChaCha(s, cypher) ELSE a
    ELSE LET c == decryptChaCha(s, cypher)
         IN  IF c.raised THEN decryptAES(s, cypher) ELSE c

\* BTCrypto.encryptForSending: next_even, then nonce + cipher output of the
\* cipher useAES points to.  issued / reused record the nonces used so far.
encryptForSending(s, message) ==
  LET n == next_even(s.num_nonce)
  IN  [bytes |-> CipherBytes(s.useAES, n, message),
       s |-> [s EXCEPT !.num_nonce = n,
                       !.looped = s.looped \/ next_even_loops(s.num_nonce),
                       !.issued = s.issued \cup {n},
                       !.reused = s.reused \/ n \in s.issued]]

\* ---------------------------------------------------- BTCryptoManager
\* BTCryptoManager.startTimer: cancels the previous Timer object and keeps
\* a new one in self.timer.
startTimer(s) == [s EXCEPT !.timer = TRUE]

\* BTCryptoManager.closeBTConnection, counted per handler.
closeBTConnection(s) == [s EXCEPT !.closed = s.closed + 1]

\* The Unlocked branch of unknown() after the cipher was set up: msg is the
\* message it decrypted (b"" when decryption raised).
unknownUnlocked_stayslocked(s, msg) ==
  IF msg = LockRequestBytes
    THEN [resetCounter(saveInfo(s)) EXCEPT !.unknown_response = "Locked"]
    ELSE LET rc == incrementCounter([kind |-> s.kind, val |-> s.val],
                                    "lock_request")
             s1 == [s EXCEPT !.unknown_response = "Unlocked",
                             !.kind = rc.kind, !.val = rc.val]
         IN  IF rc.reached THEN startTimer(s1) ELSE s1

unknownUnlocked(s, msg) ==
  IF msg = LockRequestBytes
    THEN [resetCounter(saveInfo(s)) EXCEPT !.unknown_response = "Locked"]
    ELSE LET rc == incrementCounter([kind |-> s.kind, val |-> s.val],
                                    "lock_request")
             s1 == [s EXCEPT !.locked = FALSE, !.crypto = FALSE,
                             !.unknown_response = "Unlocked",
                             !.kind = rc.kind, !.val = rc.val]
         IN  IF rc.reached THEN startTimer(s1) ELSE s1

\* The Locked branch of unknown(): the message counts as garbled.
unknownLocked(s) ==
  LET rc == incrementCounter([kind |-> s.kind, val |-> s.val], "garbled")
      s1 == [s EXCEPT !.kind = rc.kind, !.val = rc.val]
  IN  IF rc.reached
        THEN closeBTConnection([s1 EXCEPT !.timer = FALSE])
        ELSE [startTimer(s1) EXCEPT
                !.unknown_response = "Garbled" \o ToString(rc.val)]

\* BTCryptoManager.unknown(cypher, alreadyDecrypted).
unknown(s, cypher, alreadyDecrypted) ==
  IF ~s.locked
    THEN IF ~s.pw
      THEN [s EXCEPT !.unknown_response = "NoPassword"]
      ELSE LET s1 == [s EXCEPT !.locked = TRUE, !.crypto = TRUE]
           IN  IF alreadyDecrypted = LockRequestBytes
                 THEN unknownUnlocked(s1, alreadyDecrypted)
                 ELSE LET d == decryptFromReceived(s1, cypher)
                      IN  IF d.raised THEN unknownUnlocked(s1, NoBytes)
                                      ELSE unknownUnlocked(d.s, d.msg)
    ELSE unknownLocked(s)

disableCrypto_early(s) ==
  IF s.locked
    THEN [s EXCEPT !.locked = FALSE, !.crypto = FALSE]
    ELSE s

\* BTCryptoManager.disableCrypto.
disableCrypto(s) ==
  IF s.locked
    THEN saveInfo([s EXCEPT !.locked = FALSE, !.crypto = FALSE])
    ELSE s

\* BTCryptoManager.encrypt: the bytes to send and the manager after it.
encrypt(s, message) ==
  IF ~s.crypto
    THEN [bytes |-> ClearFrame(message), s |-> s]
    ELSE LET e == encryptForSending(s, message)
         IN  [bytes |-> [e.bytes EXCEPT !.marker = "1D"],
              s |-> [e.s EXCEPT !.last_nonce = e.s.num_nonce]]

\* The try block of decrypt() once decryptFromReceived has returned.
\* self.timer.cancel is named, not called, before self.timer is set to
\* None: the Timer object is let go of uncancelled.
decryptSucceeded(s, cypher, msg, forceDecryption) ==
  LET s1 == IF s.timer
              THEN [resetCounter(s) EXCEPT !.timer = FALSE,
                                           !.orphaned = s.orphaned + 1,
                                           !.unknown_response = ""]
              ELSE s
      s2 == IF msg = quitting_msg
              THEN [s1 EXCEPT !.dict = removeIdentifier(s1.dict, cypher.nonce)]
              ELSE s1
  IN  IF forceDecryption
        THEN IF msg = LockRequestBytes
          THEN [ret |-> SEP_unknown,
                s |-> unknown([s2 EXCEPT !.crypto = FALSE, !.locked = FALSE],
                              cypher, msg)]
          ELSE [ret |-> msg,
                s |-> [s2 EXCEPT !.locked = FALSE, !.crypto = FALSE]]
        ELSE [ret |-> msg, s |-> s2]

\* The except block of decrypt().
decryptFailed(s, cypher, forceDecryption) ==
  LET s1 == unknown(s, cypher, NoBytes)
  IN  [ret |-> SEP_unknown,
       s |-> IF forceDecryption THEN [s1 EXCEPT !.crypto = FALSE] ELSE s1]

RECURSIVE decrypt_clear(_, _, _)
decrypt_clear(s, cypher, forceDecryption) ==
  IF cypher.t = "text" /\ ~forceDecryption
    THEN [ret |-> cypher.plain, s |-> [s EXCEPT !.unknown_response = ""]]
    ELSE IF ~s.crypto /\ ~forceDecryption
      THEN decrypt_clear(s, cypher, TRUE)
    ELSE IF forceDecryption /\ ~s.pw
      THEN decryptFailed(s, cypher, forceDecryption)
      ELSE LET s1 == IF forceDecryption THEN [s EXCEPT !.crypto = TRUE] ELSE s
               d == decryptFromReceived(s1, cypher)
           IN  IF d.raised
                 THEN decryptFailed(s1, cypher, forceDecryption)
                 ELSE decryptSucceeded(d.s, cypher, d.msg, forceDecryption)

\* BTCryptoManager.decrypt(cypher, forceDecryption): the bytes returned and
\* the manager after it.  BTCrypto(None) raises inside the try block.
RECURSIVE decrypt(_, _, _)
decrypt(s, cypher, forceDecryption) ==
  IF ~s.crypto /\ ~forceDecryption
    THEN IF cypher.t = "text"
      THEN [ret |-> cypher.plain, s |-> [s EXCEPT !.unknown_response = ""]]
      ELSE decrypt(s, cypher, TRUE)
    ELSE IF forceDecryption /\ ~s.pw
      THEN decryptFailed(s, cypher, forceDecryption)
      ELSE LET s1 == IF forceDecryption THEN [s EXCEPT !.crypto = TRUE] ELSE s
               d == decryptFromReceived(s1, cypher)
           IN  IF d.raised
                 THEN decryptFailed(s1, cypher, forceDecryption)
                 ELSE decryptSucceeded(d.s, cypher, d.msg, forceDecryption)

\* ------------------------------------------------------- Notifications
reset_keepseq(s) ==
  [s EXCEPT !.notifications = <<>>, !.unlockingMsg = EmptyFrame,
            !.wifi_prefix = "wifi"]

\* Notifications.reset.
reset(s) ==
  [s EXCEPT !.notifications = <<>>, !.unlockingMsg = EmptyFrame,
            !.messageCounter = 1, !.wifi_prefix = "wifi"]

\* Notifications.makePrefix.
makePrefix(s, target) ==
  IF target = "wifi"
    THEN IF s.wifi_prefix # "" THEN s.wifi_prefix \o ":" ELSE ""
    ELSE target \o ":"

setNotification_front(s, msg, target) ==
  LET e == encrypt(s, <<"", makePrefix(s, target) \o msg>>)
  IN  [e.s EXCEPT !.unlockingMsg =
                     IF msg = "Unlocking" THEN e.bytes ELSE EmptyFrame,
                  !.notifications = <<e.bytes>> \o e.s.notifications]

\* Notifications.setNotification.
setNotification(s, msg, target) ==
  LET e == encrypt(s, <<"", makePrefix(s, target) \o msg>>)
  IN  [e.s EXCEPT !.unlockingMsg =
                     IF msg = "Unlocking" THEN e.bytes ELSE EmptyFrame,
                  !.notifications = Append(e.s.notifications, e.bytes)]

\* Text is a sequence of code points, each given by the number of bytes of
\* its UTF-8 encoding; an encoded byte is that number for a lead byte and 0
\* for a continuation byte.
CodePoint(w) == [i \in 1..w |-> IF i = 1 THEN w ELSE 0]

\* str.encode('UTF-8'), the two halves of the text one after the other.
RECURSIVE encode(_)
encode(msg) ==
  IF Len(msg) = 0 THEN <<>>
  ELSE IF Len(msg) = 1 THEN CodePoint(msg[1])
  ELSE LET h == Len(msg) \div 2
       IN  encode(SubSeq(msg, 1, h)) \o encode(SubSeq(msg, h + 1, Len(msg)))

\* bytes.decode('utf-8', errors='ignore'): the lead bytes that are followed
\* by all their continuation bytes, in order; any other byte is left out.
decode_ignore(b) ==
  LET Whole(p) ==
        /\ p[2] # 0
        /\ p[1] + p[2] - 1 <= Len(b)
        /\ \A k \in 1..(p[2] - 1) : b[p[1] + k] = 0
      leads == SelectSeq([i \in 1..Len(b) |-> <<i, b[i]>>], Whole)
  IN  [j \in 1..Len(leads) |-> leads[j][2]]

\* The slice bmsg[0:130].
chunk_bytes == 130

RECURSIVE make_chunks_chars(_, _)
make_chunks_chars(msg, to_send) ==
  LET chunk_str == SubSeq(msg, 1, IF Len(msg) < chunk_bytes
                                    THEN Len(msg) ELSE chunk_bytes)
      remainder == SubSeq(msg, Len(chunk_str) + 1, Len(msg))
  IN  IF remainder # <<>>
        THEN make_chunks_chars(remainder, Append(to_send, chunk_str))
        ELSE Append(to_send, chunk_str)

\* Notifications.make_chunks.
RECURSIVE make_chunks(_, _)
make_chunks(msg, to_send) ==
  LET bmsg == encode(msg)
      btruncated == SubSeq(bmsg, 1, IF Len(bmsg) < chunk_bytes
                                      THEN Len(bmsg) ELSE chunk_bytes)
      chunk_str == decode_ignore(btruncated)
      remainder == SubSeq(msg, Len(chunk_str) + 1, Len(msg))
  IN  IF remainder # <<>>
        THEN make_chunks(remainder, Append(to_send, chunk_str))
        ELSE Append(to_send, chunk_str)

\* The text of a frame that carries JSON: the separator, then the prefix
\* and the characters of the chunk.
JsonText(prefix, chunk) == <<"", prefix, chunk>>

\* The loop of setJsonNotification over the chunks from the i-th to the
\* one numbered stop; every pass reads messageCounter again.
RECURSIVE setJsonLoop(_, _, _, _, _, _)
setJsonLoop(s, chunked_json_list, target, never_encypt, i, stop) ==
  IF i > stop THEN s
  ELSE LET prefix == "multi" \o target \o ":" \o ToString(s.messageCounter)
                       \o "|" \o ToString(i) \o "|"
                       \o ToString(Len(chunked_json_list)) \o "|"
           chunk_to_send == JsonText(prefix, chunked_json_list[i])
           e == IF never_encypt
                  THEN [bytes |-> ClearFrame(chunk_to_send), s |-> s]
                  ELSE encrypt(s, chunk_to_send)
       IN  setJsonLoop([e.s EXCEPT !.notifications =
                                     Append(e.s.notifications, e.bytes)],
                       chunked_json_list, target, never_encypt, i + 1, stop)

\* The loop run to its end by one thread.
setJsonParts(s, chunked_json_list, target, never_encypt, i) ==
  setJsonLoop(s, chunked_json_list, target, never_encypt, i,
              Len(chunked_json_list))

setJsonNotification_oneseq(s, json_str, target, never_encypt) ==
  setJsonParts(s, make_chunks(json_str, <<>>), target, never_encypt, 1)

\* Notifications.setJsonNotification, json_str being json.dumps(msgObject).
setJsonNotification(s, json_str, target, never_encypt) ==
  LET chunked_json_list == make_chunks(json_str, <<>>)
  IN  IF Len(chunked_json_list) = 1
        THEN LET e == encrypt(s, JsonText(target \o ":",
                                          chunked_json_list[1]))
             IN  [e.s EXCEPT !.notifications =
                               Append(e.s.notifications, e.bytes)]
        ELSE setJsonParts([s EXCEPT !.messageCounter = s.messageCounter + 1],
                          chunked_json_list, target, never_encypt, 1)

\* ----------------------------------------------- WifiDataCharacteristic
\* PropertiesChanged: the bytes go out on the notify channel.
Transmit(s, bytes) == [s EXCEPT !.tx = Append(s.tx, bytes)]

\* WifiDataCharacteristic.send_now_simple (never_encrypt = False).
send_now_simple(s, msg, target) ==
  IF ~s.notifying THEN s
  ELSE LET e == encrypt(s, <<"", makePrefix(s, target) \o msg>>)
       IN  Transmit(e.s, e.bytes)

Placeholder == "{scanning}"

\* WifiDataCharacteristic.send_now_multi_json with the placeholder object
\* {"allAps": [], "status": "scanning"}, called json here.
send_now_multi_json(s, target, json) ==
  IF ~s.notifying THEN s
  ELSE LET mc == s.messageCounter + 1
           e == encrypt([s EXCEPT !.messageCounter = mc],
                        <<"", "multi" \o target \o ":" \o ToString(mc)
                              \o "|1|1|" \o json>>)
       IN  Transmit(e.s, e.bytes)

\* json.dumps({"allAps": []}).
NoAPs == [i \in 1..14 |-> 1]

\* The READY2 notification both list paths queue once per session.
queueReady2(s) ==
  IF ~s.sent_ready2
    THEN [setNotification(s, "READY2", "wifi") EXCEPT !.sent_ready2 = TRUE]
    ELSE s

\* do_scan_v2, run by the thread the AP2s branch started: get_list returned
\* the list whose JSON text is json (ok) or raised.
do_scan_v2(s, ok, json) ==
  LET s0 == [s EXCEPT !.scans2 = s.scans2 - 1]
  IN  IF ok
        THEN LET s1 == queueReady2(s0)
             IN  setJsonNotification(
                   [s1 EXCEPT !.messageCounter = s1.messageCounter + 1],
                   json, "wifi", FALSE)
        ELSE setJsonNotification(
               setNotification(s0, "ERROR:Scan failed", "wifi"),
               NoAPs, "wifi", FALSE)

\* setJsonNotification with several chunks, run by the event loop while a
\* do_scan_v2 thread runs unsynchronised: the thread's statements land
\* after the loop queued `at` frames.
setJsonNotification_preempted(s, json_str, target, never_encypt, at, ok, json) ==
  LET chunked_json_list == make_chunks(json_str, <<>>)
      s1 == setJsonLoop([s EXCEPT !.messageCounter = s.messageCounter + 1],
                        chunked_json_list, target, never_encypt, 1, at)
  IN  setJsonLoop(do_scan_v2(s1, ok, json), chunked_json_list, target,
                  never_encypt, at + 1, Len(chunked_json_list))

\* The AP2s branch of register_SSID.  recent_scan is the JSON text of
\* last_scan_results when they are less than 30 s old, else empty;
\* is_ble_active is set and cleared with notifying.
AP2s(s) ==
  LET s0 == [s EXCEPT !.wifi_prefix = "wifi"]
      ready2 == send_now_simple(s0, "READY2", "wifi")
  IN  IF Len(s.recent_scan) > 0
        THEN LET s1 == IF ~s0.sent_placeholder
                         THEN [send_now_multi_json(ready2, "wifi",
                                                   Placeholder)
                               EXCEPT !.sent_placeholder = TRUE]
                         ELSE ready2
                 s2 == queueReady2(s1)
             IN  setJsonNotification(
                   [s2 EXCEPT !.messageCounter = s2.messageCounter + 1],
                   s.recent_scan, "wifi", FALSE)
        ELSE LET s1 == IF ~s0.sent_placeholder
                         THEN [send_now_multi_json(ready2, "wifi",
                                                   Placeholder)
                               EXCEPT !.sent_ready2 = TRUE,
                                      !.sent_placeholder = TRUE]
                         ELSE IF ~s0.sent_ready2
                           THEN [ready2 EXCEPT !.sent_ready2 = TRUE]
                           ELSE s0
             IN  IF s1.notifying THEN s1
                 ELSE [s1 EXCEPT !.scans2 = s1.scans2 + 1]

\* WifiSetService.register_SSID for the commands of the lock protocol, the
\* version 1 list request (which starts a thread running do_scan_v1), the
\* version 2 list request, the session end and a connection request; any other command text fails
\* json.loads and is logged.  connected_AP is what request_connection
\* returns for the request.
register_SSID(s, val) ==
  IF val[1] = ""
    THEN CASE val[2] = "unknown" ->
                setNotification(s, s.unknown_response, "crypto")
           [] val[2] = "UnlockRequest" -> setNotification(s, "Unlocking", "crypto")
           [] val[2] = "CheckIn" -> setNotification(s, "CheckedIn", "crypto")
           [] val[2] = "APs" ->
                [s EXCEPT !.wifi_prefix = "", !.scans = s.scans + 1]
           [] val[2] = "AP2s" -> AP2s(s)
           [] OTHER -> s
    ELSE IF val[1] = quitting_msg[1] /\ val[2] = quitting_msg[2]
      THEN setNotification(s, "3111" \o quitting_msg[1], "wifi")
      ELSE IF Len(s.connected_AP) > 0
        THEN setNotification(s, s.connected_AP, "wifi")
        ELSE setNotification(s, "FAIL", "wifi")

\* WifiDataCharacteristic.WriteValue: decrypt, split on the separator,
\* decode every field, pad to two fields, dispatch.  dispatched records what
\* register_SSID got; a field that does not decode raises UnicodeDecodeError
\* out of the handler.
WriteValue(s, value) ==
  LET d == decrypt(s, value, FALSE)
      received == IF Len(d.ret) = 1 THEN Append(d.ret, "") ELSE d.ret
  IN  IF \E i \in 1..Len(d.ret) : d.ret[i] = NotUtf8
        THEN [d.s EXCEPT !.escaped = TRUE]
        ELSE [register_SSID(d.s, received) EXCEPT !.dispatched = received]

info_wifi_callback_drain(s) ==
  IF s.notifying
    THEN [s EXCEPT !.notifications = <<>>, !.tx = s.tx \o s.notifications]
    ELSE [s EXCEPT !.pumpTimers = s.pumpTimers - 1]

\* WifiDataCharacteristic.info_wifi_callback: at most one queued item per
\* tick; the timer source is removed when it returns False.
info_wifi_callback(s) ==
  LET s1 == IF s.notifying /\ Len(s.notifications) > 0
              THEN LET thisNotification == Head(s.notifications)
                       needToUnlock == thisNotification = s.unlockingMsg
                       sent == Transmit([s EXCEPT !.notifications =
                                            Tail(s.notifications)],
                                        thisNotification)
                   IN  IF needToUnlock THEN disableCrypto(sent) ELSE sent
              ELSE s
  IN  IF s1.notifying THEN s1 ELSE [s1 EXCEPT !.pumpTimers = s.pumpTimers - 1]

\* WifiDataCharacteristic.StartNotify.
StartNotify(s) ==
  LET s1 == reset(s)
  IN  IF s1.notifying THEN s1
      ELSE LET s2 == [s1 EXCEPT !.notifying = TRUE, !.sent_ready2 = FALSE]
               s3 == IF ~s2.sent_placeholder
                       THEN [send_now_multi_json(
                               send_now_simple(s2, "READY2", "wifi"),
                               "wifi", Placeholder)
                             EXCEPT !.sent_placeholder = TRUE]
                       ELSE s2
           IN  [s3 EXCEPT !.pumpTimers = s3.pumpTimers + 1]

\* do_scan_v1, run by the thread register_SSID started: get_list returned
\* (ok) or raised.
do_scan_v1(s, ok) ==
  setNotification([s EXCEPT !.scans = s.scans - 1],
                  IF ok THEN "READY" ELSE "ERROR:Scan failed", "wifi")

\* WifiDataCharacteristic.StopNotify.
StopNotify(s) == [reset(s) EXCEPT !.notifying = FALSE]

\* --------------------------------------------------------------- state
VARIABLES
  pw,               \* the secret file holds a password
  disk,             \* the state document infopi.json
  locked,           \* pi_info.locked
  last_nonce,       \* pi_info.last_nonce
  crypto,           \* BTCryptoManager.crypto is not None
  num_nonce,        \* nonce_counter.num_nonce
  looped,           \* nonce_counter.looped
  last_received_dict,
  useAES,           \* nonce_counter.useAES
  kind, val,        \* request_counter
  timer,            \* BTCryptoManager.timer is not None
  unknown_response,
  notifications,    \* Notifications.notifications, the queue
  unlockingMsg,
  messageCounter,
  wifi_prefix,
  notifying,        \* WifiDataCharacteristic.notifying
  sent_placeholder, \* WifiSetService.sent_placeholder
  pumpTimers,       \* GLib timeout sources running info_wifi_callback
  tx,               \* frames the last handler put on the notify channel
  closed,           \* closeBTConnection calls of the last handler
  dispatched,       \* what the last WriteValue handed to register_SSID
  escaped,          \* an exception left the last handler
  scans,            \* threads running do_scan_v1
  scans2,           \* threads running do_scan_v2
  sent_ready2,      \* WifiSetService.sent_ready2
  encpc,            \* where each thread stands in encryptForSending
  bridge,           \* librecoach BLE bridge: one device entry and its tasks
  orphaned,         \* Timer objects the last handler let go of uncancelled
  issued, reused,   \* nonces encrypted with so far; one was used twice
  streak,           \* consecutive undecryptable writes since a Normal counter
  last,             \* the last operation, its input and the state before it
  rxlog             \* the checkLastReceived calls of the replay-table model

vars == <<pw, disk, locked, last_nonce, crypto, num_nonce, looped,
          last_received_dict, useAES, kind, val, timer, unknown_response,
          notifications, unlockingMsg, messageCounter, wifi_prefix, notifying,
          sent_placeholder, pumpTimers, tx, closed, dispatched, escaped,
          scans, scans2, sent_ready2, encpc, bridge, orphaned, issued,
          reused, streak, last, rxlog>>

\* The program state as one record, with the handler's outputs cleared.
Cur ==
  [pw |-> pw, disk |-> disk, locked |-> locked, last_nonce |-> last_nonce,
   crypto |-> crypto, num_nonce |-> num_nonce, looped |-> looped,
   dict |-> last_received_dict, useAES |-> useAES, kind |-> kind,
   val |-> val, timer |-> timer, unknown_response |-> unknown_response,
   notifications |-> notifications, unlockingMsg |-> unlockingMsg,
   messageCounter |-> messageCounter, wifi_prefix |-> wifi_prefix,
   notifying |-> notifying, sent_placeholder |-> sent_placeholder,
   pumpTimers |-> pumpTimers, tx |-> <<>>, closed |-> 0, connected_AP |-> "",
   dispatched |-> <<>>, escaped |-> FALSE, scans |-> scans,
   scans2 |-> scans2, sent_ready2 |-> sent_ready2, recent_scan |-> <<>>,
   encpc |-> encpc, bridge |-> bridge,
   orphaned |-> 0,
   issued |-> issued,
   reused |-> reused]

Becomes(s) ==
  /\ pw' = s.pw /\ disk' = s.disk /\ locked' = s.locked
  /\ last_nonce' = s.last_nonce /\ crypto' = s.crypto
  /\ num_nonce' = s.num_nonce /\ looped' = s.looped
  /\ last_received_dict' = s.dict /\ useAES' = s.useAES
  /\ kind' = s.kind /\ val' = s.val /\ timer' = s.timer
  /\ unknown_response' = s.unknown_response
  /\ notifications' = s.notifications /\ unlockingMsg' = s.unlockingMsg
  /\ messageCounter' = s.messageCounter /\ wifi_prefix' = s.wifi_prefix
  /\ notifying' = s.notifying /\ sent_placeholder' = s.sent_placeholder
  /\ pumpTimers' = s.pumpTimers /\ tx' = s.tx /\ closed' = s.closed
  /\ dispatched' = s.dispatched /\ escaped' = s.escaped
  /\ scans' = s.scans /\ orphaned' = s.orphaned
  /\ scans2' = s.scans2 /\ sent_ready2' = s.sent_ready2
  /\ encpc' = s.encpc /\ bridge' = s.bridge
  /\ issued' = s.issued /\ reused' = s.reused

\* What last keeps of the state before an operation.
Pre == [locked |-> locked, crypto |-> crypto, kind |-> kind, val |-> val,
        timer |-> timer, qlen |-> Len(notifications)]

NoOp == [op |-> "start"]

\* The operation before a crash, and whether it began Locked.
Brief(l) ==
  [op |-> l.op,
   locked |-> IF l.op \in {"start", "next_even"} THEN FALSE ELSE l.pre.locked]

\* ------------------------------------------------ librecoach BLE bridge
\* The tasks that run operations on one device address: the poll loop
\* (task 0) and the MQTT command handlers in flight (1..MaxCommands).
Tasks == 0..MaxCommands

\* No task holds the device's asyncio.Lock.
Free == -1

\* The device entry _on_ble_advertisement creates, and the tasks before
\* any called _execute_with_lock.  Of a task it keeps where it stands, the
\* loop variable attempt, and the calls of _ensure_connected, the BLE errors
\* caught and the calls of _disconnect of its current operation.
Discovered ==
  [lock |-> Free, connected |-> FALSE,
   pc |-> [t \in Tasks |-> "idle"],
   attempt |-> [t \in Tasks |-> 0],
   tries |-> [t \in Tasks |-> 0],
   errors |-> [t \in Tasks |-> 0],
   disconnects |-> [t \in Tasks |-> 0]]

Lock_locked_never(b) == FALSE

\* asyncio.Lock.locked for entry["lock"].
Lock_locked(b) == b.lock # Free

\* async with entry["lock"], entered by task t: the loop starts with
\* attempt 0.
Lock_acquire(b, t) ==
  [b EXCEPT !.lock = t, !.pc[t] = "connect", !.attempt[t] = 0,
            !.tries[t] = 0, !.errors[t] = 0, !.disconnects[t] = 0]

\* Task t leaves the async with block, by return or by an exception.
Lock_release(b, t) ==
  [b EXCEPT !.lock = IF b.lock = t THEN Free ELSE b.lock, !.pc[t] = "idle"]

\* _ensure_connected for task t: how establish_connection and authenticate
\* end, r being "ok", "ble" (BleakError, OSError, TimeoutError) or "other";
\* a client that is connected is reused.
ensure_connected(b, t, r) ==
  LET b1 == [b EXCEPT !.tries[t] = b.tries[t] + 1]
  IN  IF b.connected THEN [b1 EXCEPT !.pc[t] = "operate"]
      ELSE IF r = "ok"
        THEN [b1 EXCEPT !.connected = TRUE, !.pc[t] = "operate"]
        ELSE IF r = "ble"
          THEN [b1 EXCEPT !.errors[t] = b.errors[t] + 1, !.pc[t] = "failed"]
          ELSE Lock_release(b1, t)

\* operation(client) for task t, ending as r says.
operation(b, t, r) ==
  IF r = "ok" THEN Lock_release(b, t)
  ELSE IF r = "ble"
    THEN [b EXCEPT !.errors[t] = b.errors[t] + 1, !.pc[t] = "failed"]
    ELSE Lock_release(b, t)

\* _disconnect: the client is dropped, whether client.disconnect raised
\* BleakError or OSError or not.
disconnect(b, t) ==
  [b EXCEPT !.connected = FALSE, !.disconnects[t] = b.disconnects[t] + 1]

\* The except clause of _execute_with_lock for task t: disconnect and go
\* round again on attempt 0, raise on attempt 1.
except_BleakError(b, t) ==
  IF b.attempt[t] = 0
    THEN [disconnect(b, t) EXCEPT !.attempt[t] = 1, !.pc[t] = "connect"]
    ELSE Lock_release(b, t)

\* ------------------------------------------------------------- threads
\* The event loop's thread and the scan thread; neither is inside
\* encryptForSending.
Threads == {"loop", "scan"}

NotEncrypting == [t \in Threads |-> "idle"]

\* ------------------------------------------------------------- startup
\* PiInfo.__init__: getInfoFromFile, and a corrupt document renamed aside
\* and rewritten.  dict["locked"] is assigned before dict["last_nonce"] is
\* read.
PiInfo(d) ==
  CASE d.kind = "valid" ->
         [locked |-> d.locked, last_nonce |-> d.last_nonce, disk |-> d,
          aside |-> FALSE]
    [] d.kind = "absent" ->
         [locked |-> FALSE, last_nonce |-> 0, disk |-> d, aside |-> FALSE]
    [] d.kind = "nononce" ->
         [locked |-> d.locked, last_nonce |-> 0,
          disk |-> DiskDoc("valid", d.locked, 0), aside |-> TRUE]
    [] OTHER ->
         [locked |-> FALSE, last_nonce |-> 0,
          disk |-> DiskDoc("valid", FALSE, 0), aside |-> TRUE]

\* NonceCounter.__init__.
NonceCounter(n) == n + 2

\* BLEManager.__init__ and start(): BTCryptoManager.__init__ over the
\* document d, then WifiSetService, Notifications and the characteristic.
BTCryptoManager(password, d, iss, reu) ==
  LET pi == PiInfo(d)
  IN  [pw |-> password, disk |-> pi.disk, locked |-> pi.locked,
       last_nonce |-> pi.last_nonce, crypto |-> pi.locked /\ password,
       num_nonce |-> NonceCounter(pi.last_nonce), looped |-> FALSE,
       dict |-> EmptyDict, useAES |-> FALSE, kind |-> "normal", val |-> 0,
       timer |-> FALSE, unknown_response |-> "", notifications |-> <<>>,
       unlockingMsg |-> EmptyFrame, messageCounter |-> 1,
       wifi_prefix |-> "wifi", notifying |-> FALSE,
       sent_placeholder |-> FALSE, pumpTimers |-> 0, tx |-> <<>>,
       closed |-> 0, dispatched |-> <<>>, escaped |-> FALSE, scans |-> 0,
       scans2 |-> 0, sent_ready2 |-> FALSE, encpc |-> NotEncrypting,
       bridge |-> Discovered, orphaned |-> 0,
       issued |-> iss,
       reused |-> reu]

\* The documents a start can find on disk.
InitDocs ==
  {DiskDoc("absent", FALSE, 0), DiskDoc("unparsable", FALSE, 0),
   DiskDoc("nolocked", FALSE, 0)}
    \cup {DiskDoc(k, l, 0) : k \in {"valid", "nononce"}, l \in BOOLEAN}

\* ------------------------------------------------- what a peer writes
Commands == {"LockRequest", "UnlockRequest", "CheckIn"}

Plains == {<<"", c>> : c \in Commands} \cup {quitting_msg}

SysNonces == [ctr : 0..SysMaxCtr, id : SysPeerIds]

\* What a peer holding the password can encrypt: the commands, and bytes
\* that are no UTF-8 text.
Payloads == Plains \cup {<<NotUtf8>>}

\* Connection requests: an SSID alone, and SSID, password and code.
Requests == {<<"MyHomeWifi">>, <<"MyHomeWifi", "12345", "AD">>}

\* What the wifi manager answers a connection request with.
ConnectedAPs == {"", "MyHomeWifi"}

\* Clear UTF-8 text, ciphertexts of either cipher under the device's
\* password, bytes that are neither valid UTF-8 nor open under it, and
\* bytes made without the password that AES-CBC unpads.
Writes ==
  [t : {"text"}, plain : Plains]
    \cup [t : {"cipher"}, aes : BOOLEAN, nonce : SysNonces, plain : Plains]
    \cup {[t |-> "garbage"]}
    \cup [t : {"garbage"}, nonce : SysNonces, pad : {TRUE}]

\* The same, with connection requests in clear text and ciphertexts of
\* bytes that are no UTF-8 text.
AllWrites ==
  Writes
    \cup [t : {"text"}, plain : Requests]
    \cup [t : {"cipher"}, aes : BOOLEAN, nonce : SysNonces,
          plain : Payloads \ Plains]

\* request_connection runs for a connection request only.
Answers(m) ==
  IF m.t = "text" /\ m.plain \in Requests THEN ConnectedAPs ELSE {""}

\* decryptFromReceived would raise on these bytes.
Undecryptable(m) == m.t # "cipher" /\ ~Pads(m)

\* A ciphertext whose nonce checkLastReceived would turn down.
Stale(m) ==
  /\ m.t = "cipher"
  /\ m.nonce.id \in DOMAIN last_received_dict
  /\ m.nonce.ctr <= last_received_dict[m.nonce.id]

\* ------------------------------------------------------------ actions
Is(s) ==
  /\ pw = s.pw /\ disk = s.disk /\ locked = s.locked
  /\ last_nonce = s.last_nonce /\ crypto = s.crypto
  /\ num_nonce = s.num_nonce /\ looped = s.looped
  /\ last_received_dict = s.dict /\ useAES = s.useAES
  /\ kind = s.kind /\ val = s.val /\ timer = s.timer
  /\ unknown_response = s.unknown_response
  /\ notifications = s.notifications /\ unlockingMsg = s.unlockingMsg
  /\ messageCounter = s.messageCounter /\ wifi_prefix = s.wifi_prefix
  /\ notifying = s.notifying /\ sent_placeholder = s.sent_placeholder
  /\ pumpTimers = s.pumpTimers /\ tx = s.tx /\ closed = s.closed
  /\ dispatched = s.dispatched /\ escaped = s.escaped
  /\ scans = s.scans /\ orphaned = s.orphaned
  /\ scans2 = s.scans2 /\ sent_ready2 = s.sent_ready2
  /\ encpc = s.encpc /\ bridge = s.bridge
  /\ issued = s.issued /\ reused = s.reused

\* The process starts over a document found on disk.
Init ==
  /\ \E p \in BOOLEAN, d \in InitDocs : Is(BTCryptoManager(p, d, {}, FALSE))
  /\ streak = 0
  /\ last = NoOp
  /\ rxlog = <<>>

\* decrypt() ends in its except block for this write.
Raises(m) == Undecryptable(m) \/ (~crypto /\ ~pw)

\* A peer writes m to the WifiData characteristic.
Write(m) ==
  /\ Len(notifications) < MaxQueue
  /\ num_nonce <= MaxNonce
  /\ val < MaxVal
  /\ \E ap \in Answers(m) :
       Becomes(WriteValue([Cur EXCEPT !.connected_AP = ap], m))
  /\ streak' = IF (crypto \/ m.t # "text") /\ Raises(m)
                 THEN IF kind = "normal" THEN 1
                      ELSE IF streak > 0 THEN streak + 1 ELSE 0
                 ELSE 0
  /\ last' = [op |-> "WriteValue", arg |-> m, pre |-> Pre, stale |-> Stale(m)]
  /\ UNCHANGED rxlog

\* A GLib timeout source runs info_wifi_callback.
Tick ==
  /\ pumpTimers > 0
  /\ Becomes(info_wifi_callback(Cur))
  /\ last' = [op |-> "info_wifi_callback", pre |-> Pre]
  /\ UNCHANGED <<streak, rxlog>>

\* The peer enables notifications.
StartNotifyCall ==
  /\ pumpTimers < MaxTimers
  /\ num_nonce <= MaxNonce
  /\ Becomes(StartNotify(Cur))
  /\ last' = [op |-> "StartNotify", pre |-> Pre]
  /\ UNCHANGED <<streak, rxlog>>

\* The peer disables notifications.
StopNotifyCall ==
  /\ Becomes(StopNotify(Cur))
  /\ last' = [op |-> "StopNotify", pre |-> Pre]
  /\ UNCHANGED <<streak, rxlog>>

\* The process dies between two handlers and is started again.
Crash ==
  /\ Becomes(BTCryptoManager(pw, disk, issued, reused))
  /\ streak' = 0
  /\ last' = [op |-> "crash", pre |-> Pre, was |-> Brief(last)]
  /\ UNCHANGED rxlog

\* BLEManager.quitBT (SIGTERM or the server timeout): saveInfo, then the
\* process ends and is started again.
quitBT ==
  /\ Becomes(BTCryptoManager(pw, saveInfo(Cur).disk, issued, reused))
  /\ streak' = 0
  /\ last' = [op |-> "quitBT", pre |-> Pre]
  /\ UNCHANGED rxlog

Next ==
  \/ \E m \in Writes : Write(m)
  \/ Tick
  \/ StartNotifyCall
  \/ StopNotifyCall
  \/ Crash
  \/ quitBT

Spec == Init /\ [][Next]_vars

\* The transport with the scheduling the code sets up: GLib runs the pump
\* while its timeout source exists.  startTimer builds threading.Timer
\* objects and never calls start() on them, so no thread runs their
\* callback and there is no step for it.
SpecLive == Spec /\ WF_vars(Tick)

\* ------------------------------------- the write handler, every input
\* One session from any start: writes of every kind, notifications
\* enabled, the pump.
NextWrite ==
  \/ \E m \in AllWrites : Write(m)
  \/ Tick
  \/ StartNotifyCall

SpecWrite == Init /\ [][NextWrite]_vars

\* ------------------------------------------------- startup on its own
\* What PiInfo.__init__ can find in infopi.json: nothing, text that is no
\* JSON, a document without "locked", one without "last_nonce", and a
\* whole one.
StartDocs ==
  InitDocs
    \cup {DiskDoc("valid", l, n) : l \in BOOLEAN, n \in 0..MAXNONCE}
    \cup {DiskDoc("nolocked", FALSE, n) : n \in 0..MAXNONCE}

\* What last keeps of a start: the document found and whether it was
\* renamed to infopi.json_corrupted.
Started(d) == [op |-> "PiInfo", doc |-> d, aside |-> PiInfo(d).aside]

\* The first start, before any document was written.
InitStart ==
  /\ \E p \in BOOLEAN :
       Is(BTCryptoManager(p, DiskDoc("absent", FALSE, 0), {}, FALSE))
  /\ last = Started(DiskDoc("absent", FALSE, 0))
  /\ streak = 0
  /\ rxlog = <<>>

\* The process is started again and finds d in infopi.json.
Restart(d) ==
  /\ Becomes(BTCryptoManager(pw, d, issued, reused))
  /\ streak' = 0
  /\ last' = Started(d)
  /\ UNCHANGED rxlog

NextStart == \E d \in StartDocs : Restart(d)

SpecStart == InitStart /\ [][NextStart]_vars

\* ------------------------------------------- the version 1 scan thread
\* The list request and CheckIn, in clear and under the device's password.
ScanWrites ==
  [t : {"text"}, plain : {<<"", "APs">>, <<"", "CheckIn">>}]
    \cup [t : {"cipher"}, aes : {FALSE}, nonce : SysNonces,
          plain : {<<"", "APs">>, <<"", "CheckIn">>}]

\* A write, while fewer than MaxScans scan threads run or when it asks for
\* no scan.
ScanWrite(m) ==
  /\ (m.plain = <<"", "APs">>) => scans < MaxScans
  /\ Write(m)

\* The scan thread gets to its notification, between two handlers of the
\* event loop.
ScanThread(ok) ==
  /\ scans > 0
  /\ num_nonce <= MaxNonce
  /\ Becomes(do_scan_v1(Cur, ok))
  /\ last' = [op |-> "do_scan_v1", pre |-> Pre, nonce |-> num_nonce,
              seq |-> messageCounter]
  /\ UNCHANGED <<streak, rxlog>>

NextScan ==
  \/ \E m \in ScanWrites : ScanWrite(m)
  \/ \E ok \in BOOLEAN : ScanThread(ok)
  \/ Tick
  \/ StartNotifyCall

SpecScan == Init /\ [][NextScan]_vars

\* ------------------------------------------ sessions of several peers
\* One process lifetime: every peer identifier of PeerIds writes CheckIn
\* and the session-end message under the device's password, and the
\* session-end message in clear.
SessionWrites ==
  [t : {"cipher"}, aes : BOOLEAN,
   nonce : [ctr : 0..SysMaxCtr, id : PeerIds],
   plain : {quitting_msg, <<"", "CheckIn">>}]
    \cup {[t |-> "text", plain |-> quitting_msg]}

NextSession ==
  \/ \E m \in SessionWrites : Write(m)
  \/ Tick
  \/ StartNotifyCall

SpecSession == Init /\ [][NextSession]_vars

\* The same writes in one process lifetime, rxlog keeping the nonce of
\* every ciphertext whose plaintext the handler got from decrypt and handed
\* to register_SSID: the nonces checkLastReceived accepted.
AcceptingWrite(m) ==
  /\ Len(notifications) < MaxQueue
  /\ num_nonce <= MaxNonce
  /\ val < MaxVal
  /\ Len(rxlog) < MaxLog
  /\ \E ap \in Answers(m) :
       Becomes(WriteValue([Cur EXCEPT !.connected_AP = ap], m))
  /\ streak' = IF (crypto \/ m.t # "text") /\ Raises(m)
                 THEN IF kind = "normal" THEN 1
                      ELSE IF streak > 0 THEN streak + 1 ELSE 0
                 ELSE 0
  /\ last' = [op |-> "WriteValue", arg |-> m, pre |-> Pre, stale |-> Stale(m)]
  /\ rxlog' = IF m.t = "cipher" /\ dispatched' = m.plain
                THEN Append(rxlog, m.nonce)
                ELSE rxlog

NextAccept ==
  \/ \E m \in SessionWrites : AcceptingWrite(m)
  \/ Tick
  \/ StartNotifyCall

SpecAccept == Init /\ [][NextAccept]_vars

\* ----------------------------------------- the nonce counter on its own
\* NonceCounter(last_nonce) for any persisted last_nonce.
InitNonce ==
  /\ \E n \in 0..MAXNONCE :
       Is(BTCryptoManager(TRUE, DiskDoc("valid", FALSE, n), {}, FALSE))
  /\ streak = 0
  /\ last = NoOp
  /\ rxlog = <<>>

\* One call of next_even; last keeps what it returned, what the call before
\* returned (-1 when there was none) and whether the counter looped in it.
CallNextEven ==
  /\ num_nonce' = next_even(num_nonce)
  /\ looped' = (looped \/ next_even_loops(num_nonce))
  /\ last' = [op |-> "next_even", ret |-> next_even(num_nonce),
              prev |-> IF last.op = "next_even" THEN last.ret ELSE -1,
              wrapped |-> next_even_loops(num_nonce)]
  /\ UNCHANGED <<pw, disk, locked, last_nonce, crypto, last_received_dict,
                 useAES, kind, val, timer, unknown_response, notifications,
                 unlockingMsg, messageCounter, wifi_prefix, notifying,
                 sent_placeholder, pumpTimers, tx, closed, dispatched,
                 escaped, scans, scans2, sent_ready2, encpc, bridge, orphaned,
                 issued, reused, streak,
                 rxlog>>

NextNonce == CallNextEven

SpecNonce == InitNonce /\ [][NextNonce]_vars

\* ------------------------------------------ the replay table on its own
InitReplay ==
  /\ Is(BTCryptoManager(TRUE, DiskDoc("absent", FALSE, 0), {}, FALSE))
  /\ streak = 0
  /\ last = NoOp
  /\ rxlog = <<>>

\* One call of checkLastReceived; rxlog keeps the nonce, the table before
\* the call and the verdict.
CallCheckLastReceived(id, ctr) ==
  LET nonce == [ctr |-> ctr, id |-> id]
      chk == checkLastReceived(last_received_dict, nonce)
  IN  /\ Len(rxlog) < MaxLog
      /\ last_received_dict' = chk.dict
      /\ rxlog' = Append(rxlog, [id |-> id, ctr |-> ctr, ok |-> chk.ok,
                                 before |-> last_received_dict])
      /\ UNCHANGED <<pw, disk, locked, last_nonce, crypto, num_nonce, looped,
                     useAES, kind, val, timer, unknown_response,
                     notifications, unlockingMsg, messageCounter, wifi_prefix,
                     notifying, sent_placeholder, pumpTimers, tx, closed,
                     dispatched, escaped, scans, scans2, sent_ready2, encpc, bridge, orphaned,
                 issued, reused,
                     streak, last>>

NextReplay == \E id \in PeerIds, ctr \in 0..MaxCtr : CallCheckLastReceived(id, ctr)

SpecReplay == InitReplay /\ [][NextReplay]_vars

\* ------------------------------------------------ BTCrypto on its own
\* Messages of 8, 16 and 0 bytes.
Messages == {<<"", "CheckIn">>, <<"MyHomeWifi", "12345">>, NoBytes}

\* RECURSIVE sum of the lengths of the fields of a byte string.
RECURSIVE FieldBytes(_)
FieldBytes(m) == IF m = <<>> THEN 0 ELSE Len(Head(m)) + FieldBytes(Tail(m))

\* len(message.encode('utf8')) of an ASCII message: its fields and the
\* separators between them.
ByteLen(m) == FieldBytes(m) + Len(m) - 1

\* ChaCha20Poly1305.encrypt returns the message's length plus a 16-byte
\* tag; AES-CBC can only unpad it when that is a multiple of 16, and
\* whether it does depends on the bytes.
CanPad(aes, m) == IF aes THEN {FALSE}
                  ELSE IF ByteLen(m) % 16 = 0 THEN BOOLEAN ELSE {FALSE}

\* What a peer encrypts under the password, with its own nonces.
PeerCiphers ==
  {[t |-> "cipher", aes |-> a, nonce |-> n, plain |-> m, pad |-> p] :
     a \in BOOLEAN, n \in SysNonces, m \in Messages, p \in BOOLEAN}

\* The bytes encryptForSending returned, as decryptFromReceived reads them:
\* cypher[0:12] is the device's counter under identifier 0.
AsReceived(f, p) ==
  [t |-> "cipher", aes |-> f.cipher = "aes",
   nonce |-> [ctr |-> f.nonce, id |-> 0], plain |-> f.text, pad |-> p]

InitCipher ==
  /\ Is(BTCryptoManager(TRUE, DiskDoc("valid", TRUE, 0), {}, FALSE))
  /\ streak = 0
  /\ last = NoOp
  /\ rxlog = <<>>

\* crypto.encryptForSending(m, nonce_counter); tx keeps what it returned.
CallEncryptForSending(m) ==
  /\ num_nonce <= MaxNonce
  /\ LET e == encryptForSending(Cur, m)
     IN  Becomes(Transmit(e.s, e.bytes))
  /\ last' = [op |-> "encryptForSending", arg |-> m, flag |-> useAES]
  /\ UNCHANGED <<streak, rxlog>>

\* crypto.decryptFromReceived(c, nonce_counter); last keeps the flag and the
\* verdict of the replay table before the call, and what the call returned.
CallDecryptFromReceived(c, own) ==
  /\ c.pad \in CanPad(c.aes, c.plain)
  /\ LET d == decryptFromReceived(Cur, c)
     IN  /\ Becomes([d.s EXCEPT !.tx = tx])
         /\ last' = [op |-> "decryptFromReceived", arg |-> c, own |-> own,
                     flag |-> useAES,
                     fresh |-> checkLastReceived(last_received_dict,
                                                 c.nonce).ok,
                     raised |-> d.raised, ret |-> d.msg]
  /\ UNCHANGED <<streak, rxlog>>

NextCipher ==
  \/ \E m \in Messages : CallEncryptForSending(m)
  \/ \E c \in PeerCiphers : CallDecryptFromReceived(c, FALSE)
  \/ \E p \in BOOLEAN :
       tx # <<>> /\ CallDecryptFromReceived(AsReceived(tx[1], p), TRUE)

SpecCipher == InitCipher /\ [][NextCipher]_vars

\* ---------------------------------------------- make_chunks on its own
\* Texts of a given length in bytes: lead ASCII characters, then code
\* points of w bytes, alone or alternating with ASCII, as long as they
\* fit, and ASCII to the end.
Fill(n, lead, w, alt) ==
  LET a == IF lead < n THEN lead ELSE n
      unit == IF alt THEN w + 1 ELSE w
      k == (n - a) \div unit
      body == IF alt THEN 2 * k ELSE k
      rest == n - a - k * unit
  IN  [i \in 1..(a + body + rest) |->
         IF i <= a \/ i > a + body THEN 1
         ELSE IF alt /\ (i - a) % 2 = 0 THEN 1 ELSE w]

TextBytes == {0, 1, 128, 129, 130, 131, 259, 260, 261, 262, 310, 390, 391}

Texts ==
  {Fill(n, lead, w, alt) :
     n \in TextBytes, lead \in 0..MaxLead, w \in 1..4, alt \in BOOLEAN}

\* make_chunks(msg, []); last keeps the text and the list returned.
CallMakeChunks(msg) ==
  /\ last' = [op |-> "make_chunks", arg |-> msg,
              ret |-> make_chunks(msg, <<>>)]
  /\ UNCHANGED <<pw, disk, locked, last_nonce, crypto, num_nonce, looped,
                 last_received_dict, useAES, kind, val, timer,
                 unknown_response, notifications, unlockingMsg,
                 messageCounter, wifi_prefix, notifying, sent_placeholder,
                 pumpTimers, tx, closed, dispatched, escaped, scans,
                 scans2, sent_ready2, encpc, bridge, orphaned, issued, reused,
                 streak, rxlog>>

NextChunks == \E msg \in Texts : CallMakeChunks(msg)

SpecChunks == InitReplay /\ [][NextChunks]_vars

\* --------------------------------------- setJsonNotification on its own
\* json.dumps escapes every non-ASCII character: JSON texts of n bytes.
JsonBytes == {2, 131, 310}

JsonTexts == {Fill(n, 0, 1, FALSE) : n \in JsonBytes}

InitJson ==
  /\ \E l \in BOOLEAN :
       Is(BTCryptoManager(TRUE, DiskDoc("valid", l, 0), {}, FALSE))
  /\ streak = 0
  /\ last = NoOp
  /\ rxlog = <<>>

\* register_SSID calls setJsonNotification for infoIP, infoMac, infoAP and,
\* with never_encypt, for infoOther; last keeps messageCounter and
\* num_nonce as they were before the call.
CallSetJsonNotification(json_str, never_encypt) ==
  /\ Len(notifications) < MaxQueue
  /\ num_nonce <= MaxNonce
  /\ messageCounter < MaxSeq
  /\ Becomes(setJsonNotification(Cur, json_str, "wifi", never_encypt))
  /\ last' = [op |-> "setJsonNotification", arg |-> json_str,
              never_encypt |-> never_encypt, pre |-> Pre,
              seq |-> messageCounter, nonce |-> num_nonce]
  /\ UNCHANGED <<streak, rxlog>>

NextJson ==
  \/ \E j \in JsonTexts, n \in BOOLEAN : CallSetJsonNotification(j, n)
  \/ Tick
  \/ StartNotifyCall

SpecJson == InitJson /\ [][NextJson]_vars

\* ------------------------------------------- multipart sequence numbers
\* The version 2 list request, in clear text and under the password.
ListWrites ==
  [t : {"text"}, plain : {<<"", "AP2s">>}]
    \cup [t : {"cipher"}, aes : {FALSE}, nonce : SysNonces,
          plain : {<<"", "AP2s">>}]

\* What last_scan_results hold when a list request arrives: nothing
\* recent, or a list whose JSON text takes two chunks.
RecentScans == {<<>>, Fill(131, 0, 1, FALSE)}

\* A peer writes a list request while fewer than MaxScans threads run
\* do_scan_v2.
ListWrite(m, recent) ==
  /\ Len(notifications) < MaxQueue
  /\ num_nonce <= MaxNonce
  /\ val < MaxVal
  /\ messageCounter < MaxSeq
  /\ scans2 < MaxScans
  /\ Becomes(WriteValue([Cur EXCEPT !.recent_scan = recent], m))
  /\ streak' = IF (crypto \/ m.t # "text") /\ Raises(m)
                 THEN IF kind = "normal" THEN 1
                      ELSE IF streak > 0 THEN streak + 1 ELSE 0
                 ELSE 0
  /\ last' = [op |-> "WriteValue", arg |-> m, pre |-> Pre,
              stale |-> Stale(m), seq |-> messageCounter]
  /\ UNCHANGED rxlog

\* The do_scan_v2 thread runs from get_list's return to its end between
\* two handlers of the event loop.
ListThread(ok, json) ==
  /\ scans2 > 0
  /\ Len(notifications) < MaxQueue
  /\ num_nonce <= MaxNonce
  /\ messageCounter < MaxSeq
  /\ Becomes(do_scan_v2(Cur, ok, json))
  /\ last' = [op |-> "do_scan_v2", pre |-> Pre, seq |-> messageCounter]
  /\ UNCHANGED <<streak, rxlog>>

\* The event loop runs setJsonNotification for an info command whose JSON
\* text takes several chunks, and the do_scan_v2 thread runs during its
\* loop, after `at` frames.
ListThreadDuring(json_str, never_encypt, at, ok, json) ==
  /\ scans2 > 0
  /\ Len(notifications) < MaxQueue
  /\ num_nonce <= MaxNonce
  /\ messageCounter < MaxSeq
  /\ at < Len(make_chunks(json_str, <<>>))
  /\ Becomes(setJsonNotification_preempted(Cur, json_str, "wifi",
                                           never_encypt, at, ok, json))
  /\ last' = [op |-> "setJsonNotification", arg |-> json_str,
              never_encypt |-> never_encypt, pre |-> Pre,
              seq |-> messageCounter, nonce |-> num_nonce, at |-> at]
  /\ UNCHANGED <<streak, rxlog>>

NextSeq ==
  \/ \E m \in ListWrites, recent \in RecentScans : ListWrite(m, recent)
  \/ \E ok \in BOOLEAN, j \in JsonTexts : ListThread(ok, j)
  \/ \E j \in JsonTexts, n \in BOOLEAN : CallSetJsonNotification(j, n)
  \/ \E j \in JsonTexts, n, ok \in BOOLEAN, at \in 1..2, tj \in JsonTexts :
       ListThreadDuring(j, n, at, ok, tj)
  \/ Tick
  \/ StartNotifyCall
  \/ StopNotifyCall

SpecSeq == InitJson /\ [][NextSeq]_vars

\* ------------------------------------- two threads in encryptForSending
\* The notification each thread is building: the event loop answers an
\* authenticated CheckIn, the scan thread reports the end of do_scan_v1.
Building(t) ==
  IF t = "loop" THEN [msg |-> "CheckedIn", target |-> "crypto"]
                ELSE [msg |-> "READY", target |-> "wifi"]

\* NonceCounter.increment on the shared counter.
NonceCounter_increment(s) ==
  [s EXCEPT !.num_nonce = increment(s.num_nonce),
            !.looped = s.looped \/ incrementLoops(s.num_nonce)]

\* The rest of next_even: a second increment when the counter is odd.
next_even_odd(s) ==
  IF s.num_nonce % 2 > 0 THEN NonceCounter_increment(s) ELSE s

\* The rest of encryptForSending, encrypt and setNotification for thread
\* t: nonce_counter.bytes is read, the frame is built with it, last_nonce
\* is recorded and the frame is appended to the queue.
encryptForSending_bytes(s, t) ==
  LET n == s.num_nonce
      b == Building(t)
      frame == [CipherBytes(s.useAES, n,
                            <<"", makePrefix(s, b.target) \o b.msg>>)
                EXCEPT !.marker = "1D"]
  IN  [s EXCEPT !.issued = s.issued \cup {n},
                !.reused = s.reused \/ n \in s.issued,
                !.last_nonce = n,
                !.unlockingMsg = EmptyFrame,
                !.notifications = Append(s.notifications, frame),
                !.scans = IF t = "scan" THEN s.scans - 1 ELSE s.scans,
                !.encpc = [s.encpc EXCEPT ![t] = "idle"]]

\* Writes under the password: the version 1 list request and CheckIn.
RaceWrites ==
  [t : {"cipher"}, aes : {FALSE}, nonce : [ctr : 0..SysMaxCtr, id : PeerIds],
   plain : {<<"", "APs">>, <<"", "CheckIn">>}]

\* The event loop handles a list request: register_SSID starts a thread
\* running do_scan_v1.
StartScan(m) ==
  /\ encpc["loop"] = "idle"
  /\ m.plain = <<"", "APs">>
  /\ scans < MaxScans
  /\ Write(m)

\* The event loop handles CheckIn while Locked up to the call of
\* encryptForSending in setNotification.
LoopCallsEncrypt(m) ==
  LET d == decrypt(Cur, m, FALSE)
  IN  /\ encpc["loop"] = "idle"
      /\ crypto
      /\ m.plain = <<"", "CheckIn">>
      /\ d.ret = m.plain
      /\ Len(notifications) < MaxQueue
      /\ num_nonce <= MaxNonce
      /\ Becomes([d.s EXCEPT !.dispatched = d.ret,
                             !.encpc = [encpc EXCEPT !["loop"] = "increment"]])
      /\ last' = [op |-> "WriteValue", arg |-> m, pre |-> Pre,
                  stale |-> Stale(m)]
      /\ UNCHANGED <<streak, rxlog>>

\* The scan thread, get_list having returned, gets to the call of
\* encryptForSending in setNotification while the device is Locked.
ScanCallsEncrypt ==
  /\ scans > 0
  /\ encpc["scan"] = "idle"
  /\ crypto
  /\ Len(notifications) < MaxQueue
  /\ num_nonce <= MaxNonce
  /\ Becomes([Cur EXCEPT !.encpc = [encpc EXCEPT !["scan"] = "increment"]])
  /\ last' = [op |-> "do_scan_v1", pre |-> Pre, nonce |-> num_nonce,
              seq |-> messageCounter]
  /\ UNCHANGED <<streak, rxlog>>

\* Thread t runs the first increment of next_even.
EncIncrement(t) ==
  /\ encpc[t] = "increment"
  /\ Becomes([NonceCounter_increment(Cur)
              EXCEPT !.encpc = [encpc EXCEPT ![t] = "odd"]])
  /\ last' = [op |-> "increment", thread |-> t, pre |-> Pre]
  /\ UNCHANGED <<streak, rxlog>>

\* Thread t runs the parity test of next_even.
EncOdd(t) ==
  /\ encpc[t] = "odd"
  /\ Becomes([next_even_odd(Cur)
              EXCEPT !.encpc = [encpc EXCEPT ![t] = "bytes"]])
  /\ last' = [op |-> "next_even", thread |-> t, pre |-> Pre]
  /\ UNCHANGED <<streak, rxlog>>

\* Thread t reads the nonce and finishes its notification.
EncBytes(t) ==
  /\ encpc[t] = "bytes"
  /\ Becomes(encryptForSending_bytes(Cur, t))
  /\ last' = [op |-> "encryptForSending", thread |-> t, pre |-> Pre]
  /\ UNCHANGED <<streak, rxlog>>

\* The pump, when the event loop is between two handlers.
RaceTick ==
  /\ encpc["loop"] = "idle"
  /\ Tick

NextRace ==
  \/ \E m \in RaceWrites : StartScan(m)
  \/ \E m \in RaceWrites : LoopCallsEncrypt(m)
  \/ ScanCallsEncrypt
  \/ \E t \in Threads : EncIncrement(t)
  \/ \E t \in Threads : EncOdd(t)
  \/ \E t \in Threads : EncBytes(t)
  \/ RaceTick
  \/ StartNotifyCall

SpecRace == InitJson /\ [][NextRace]_vars

\* ------------------------------------------------ notification sessions
\* Writes that fill the queue, the replay table and the request counter.
NotifyWrites ==
  [t : {"cipher"}, aes : {FALSE}, nonce : SysNonces,
   plain : {<<"", "UnlockRequest">>}]
    \cup {[t |-> "garbage"]}

\* The peer enables notifications, whether they are enabled or not; last
\* keeps whether they were, and the seq counter before the call.
StartNotifyAnyTime ==
  /\ notifying \/ pumpTimers < MaxTimers
  /\ num_nonce <= MaxNonce
  /\ Becomes(StartNotify(Cur))
  /\ last' = [op |-> "StartNotify", pre |-> Pre, was |-> notifying,
              seq |-> messageCounter]
  /\ UNCHANGED <<streak, rxlog>>

NextNotify ==
  \/ \E m \in NotifyWrites : Write(m)
  \/ \E j \in JsonTexts, n \in BOOLEAN : CallSetJsonNotification(j, n)
  \/ Tick
  \/ StartNotifyAnyTime
  \/ StopNotifyCall

SpecNotify == InitJson /\ [][NextNotify]_vars

\* The peer enables notifications while at most MaxTimers timeout sources
\* are running: add_timeout adds one more.
StartNotifyEarly ==
  /\ pumpTimers <= MaxTimers
  /\ num_nonce <= MaxNonce
  /\ Becomes(StartNotify(Cur))
  /\ last' = [op |-> "StartNotify", pre |-> Pre, timers |-> pumpTimers]
  /\ UNCHANGED <<streak, rxlog>>

NextPump ==
  \/ \E m \in NotifyWrites : Write(m)
  \/ Tick
  \/ StartNotifyEarly
  \/ StopNotifyCall

SpecPump == Init /\ [][NextPump]_vars

\* ------------------------------------------------------------- claims
\* The frames the last WriteValue appended to the queue.
Replies == SubSeq(notifications, last.pre.qlen + 1, Len(notifications))

IsWrite == last.op = "WriteValue"

\* C1, as claimed: every value next_even returns is even and strictly
\* greater than the value the previous call returned.
C1_NextEvenIncreasing ==
  last.op = "next_even" =>
    /\ last.ret % 2 = 0
    /\ last.prev # -1 => last.ret > last.prev

\* C1, amended: every value next_even returns is even, and it is strictly
\* greater than the value the previous call returned unless the counter
\* passed MAXNONCE during the call and restarted from zero, setting looped.
C1_NextEvenIncreasingUntilWrap ==
  last.op = "next_even" =>
    /\ last.ret % 2 = 0
    /\ last.ret = num_nonce
    /\ (last.prev # -1 /\ ~last.wrapped) => last.ret > last.prev
    /\ last.wrapped => looped

C1_Witness ==
  /\ last.op = "next_even"
  /\ last.prev # -1
  /\ ~last.wrapped
  /\ last.ret > last.prev
  /\ disk.last_nonce % 2 = 1

\* C2: checkLastReceived accepts a nonce exactly when its identifier has no
\* entry or its counter is strictly greater than the recorded one; on
\* acceptance the entry becomes that counter, on rejection the table is
\* unchanged; counters 5, 3, 7 of one identifier are accepted, rejected,
\* accepted.
C2_ReplayRule ==
  /\ \A i \in 1..Len(rxlog) :
       LET e == rxlog[i]
           after == IF i < Len(rxlog) THEN rxlog[i + 1].before
                                      ELSE last_received_dict
       IN  /\ e.ok <=> (e.id \notin DOMAIN e.before \/ e.ctr > e.before[e.id])
           /\ e.ok => (e.id \in DOMAIN after /\ after[e.id] = e.ctr)
           /\ ~e.ok => after = e.before
  /\ \A i \in 1..(Len(rxlog) - 2) :
       ( /\ rxlog[i].id = rxlog[i + 1].id /\ rxlog[i].id = rxlog[i + 2].id
         /\ rxlog[i].ctr = 5 /\ rxlog[i + 1].ctr = 3 /\ rxlog[i + 2].ctr = 7
         /\ (rxlog[i].id \in DOMAIN rxlog[i].before
               => rxlog[i].before[rxlog[i].id] < 5) )
       => (rxlog[i].ok /\ ~rxlog[i + 1].ok /\ rxlog[i + 2].ok)

C2_Witness ==
  /\ Len(rxlog) = 3
  /\ \A i \in 1..3 : rxlog[i].id = 1
  /\ rxlog[1].ctr = 5 /\ rxlog[2].ctr = 3 /\ rxlog[3].ctr = 7
  /\ rxlog[1].ok /\ ~rxlog[2].ok /\ rxlog[3].ok
  /\ last_received_dict[1] = 7

\* C3, as claimed: over any run with restarts, graceful or by crash, the
\* device never encrypts two outbound messages with the same nonce.
C3_NoNonceReuse == ~reused

\* C4: Unlocked with a password, a fresh ciphertext of LockRequest makes the
\* device Locked, writes locked=true to the state document, resets the
\* RetryCounter to Normal and queues the reply "Locked" as ciphertext.
C4_LockRequestLocks ==
  ( /\ IsWrite /\ pw /\ ~last.pre.locked
    /\ last.arg.t = "cipher" /\ last.arg.plain = LockRequestBytes
    /\ ~last.stale )
  => /\ locked /\ crypto
     /\ disk.kind = "valid" /\ disk.locked
     /\ kind = "normal" /\ val = 0
     /\ Len(Replies) = 1
     /\ FirstByte(Replies[1]) = "1D"
     /\ Replies[1].cipher # "none"
     /\ Replies[1].text = <<"", "crypto:Locked">>

C4_Witness ==
  /\ IsWrite /\ pw /\ ~last.pre.locked
  /\ last.arg.t = "cipher" /\ last.arg.plain = LockRequestBytes
  /\ ~last.stale
  /\ last.pre.kind = "lock_request"
  /\ locked

\* C5: a ciphertext that decrypts but carries a stale nonce is dropped, in
\* the Locked and in the Unlocked state: decrypt returns b"", register_SSID
\* gets the blank message, nothing is queued and nothing is sent.
C5_StaleDropped ==
  (IsWrite /\ last.stale) =>
    /\ dispatched = <<"", "">>
    /\ Replies = <<>>
    /\ tx = <<>>
    /\ locked = last.pre.locked

C5_Witness ==
  /\ IsWrite /\ last.stale
  /\ ~last.pre.locked
  /\ last.arg.plain = LockRequestBytes
  /\ dispatched = <<"", "">>

\* C6, as claimed: Unlocked with a password, 3 consecutive failed lock
\* attempts from a Normal RetryCounter arm the disconnect timer, and a 4th
\* is still answered "Unlocked" and leaves the device Unlocked.
C6_ThreeFailedLocksArmTimer ==
  (IsWrite /\ pw /\ ~last.pre.locked /\ streak >= 3) =>
    /\ timer
    /\ ~locked
    /\ Len(Replies) = 1 /\ Replies[1].text = <<"", "crypto:Unlocked">>

\* C7, as claimed: Locked, the first two undecryptable writes from a Normal
\* RetryCounter are answered "Garbled1" and "Garbled2", and the third
\* cancels the timer and closes the connection without queuing a reply.
C7_GarbledRepliesThenClose ==
  (IsWrite /\ last.pre.locked /\ last.pre.crypto /\ streak >= 1) =>
    /\ streak <= 2 =>
         /\ Len(Replies) = 1
         /\ Replies[1].text = <<"", "crypto:Garbled" \o ToString(streak)>>
    /\ streak = 3 => (closed = 1 /\ ~timer /\ Replies = <<>>)

\* The frame is the ciphertext of the "Unlocking" acknowledgment.
IsUnlockingAck(f) ==
  f.marker = "1D" /\ f.text = <<"", "crypto:Unlocking">>

\* C8, as claimed: the acknowledgment of an UnlockRequest handled while
\* Locked is queued as ciphertext, the device stays Locked until the pump
\* transmits it, and the tick that transmits it disables the cipher and
\* writes locked=false.
C8_UnlockWhenAckTransmitted ==
  /\ (IsWrite /\ last.pre.locked /\ last.pre.crypto
        /\ dispatched = <<"", "UnlockRequest">>)
       => (Len(Replies) = 1 /\ IsUnlockingAck(Replies[1]) /\ locked /\ crypto)
  /\ (last.op \notin {"start", "next_even"} /\ last.pre.locked
        /\ last.pre.crypto /\ ~locked)
       => (last.op = "info_wifi_callback" /\ tx # <<>> /\ IsUnlockingAck(tx[1]))
  /\ (last.op = "info_wifi_callback" /\ tx # <<>> /\ IsUnlockingAck(tx[1]))
       => (~locked /\ ~crypto /\ disk.kind = "valid" /\ ~disk.locked)

\* C9: with a password configured, the lock state a restart would restore
\* from the state document is the lock state the device is in, between any
\* two handlers.
C9_RestartRestoresLockState ==
  pw => LET again == BTCryptoManager(pw, disk, issued, reused)
        IN  again.locked = locked /\ again.crypto = crypto

C9_Witness ==
  /\ pw
  /\ last.op = "crash"
  /\ last.was.op = "info_wifi_callback"
  /\ last.was.locked
  /\ ~last.pre.locked
  /\ ~locked /\ ~crypto

\* C10, as claimed: with no password configured the device is never Locked:
\* an undecodable write finds the lock flag false and the cipher disabled
\* and is answered "NoPassword", never "Garbled{n}".
C10_NoPasswordNeverLocked ==
  (IsWrite /\ ~pw /\ last.arg.t # "text") =>
    /\ ~last.pre.locked /\ ~last.pre.crypto
    /\ ~locked /\ ~crypto
    /\ Len(Replies) = 1 /\ Replies[1].text = <<"", "crypto:NoPassword">>

\* C11, as claimed: decrypting an AES-CBC message while useAES is false
\* succeeds and sets useAES, decrypting a ChaCha20-Poly1305 message while
\* useAES is true succeeds and clears it, and encryptForSending uses the
\* cipher the flag points to and leaves the flag alone.
C11_CipherFollowsLastDecryption ==
  /\ (last.op = "decryptFromReceived" /\ last.arg.aes /\ ~last.flag)
       => (~last.raised /\ useAES)
  /\ (last.op = "decryptFromReceived" /\ ~last.arg.aes /\ last.flag)
       => (~last.raised /\ ~useAES)
  /\ last.op = "encryptForSending"
       => /\ useAES = last.flag
          /\ tx[1].cipher = IF last.flag THEN "aes" ELSE "chacha"

\* C12, as claimed: encrypt() called in a write handler returns the text
\* unchanged and leaves the nonce counter alone when the device is
\* Unlocked; when it is Locked it moves the counter to the next even value,
\* returns 0x1D, that nonce and the output of the remembered cipher, and
\* records the counter as last_nonce.
C12_EncryptByLockState ==
  [][ (last'.op = "WriteValue" /\ Len(notifications') = Len(notifications) + 1)
        => LET f == notifications'[Len(notifications')]
           IN  IF locked'
                 THEN /\ f.marker = "1D"
                      /\ f.cipher = IF useAES' THEN "aes" ELSE "chacha"
                      /\ f.nonce = num_nonce'
                      /\ num_nonce' % 2 = 0
                      /\ num_nonce' > num_nonce /\ num_nonce' <= num_nonce + 2
                      /\ last_nonce' = num_nonce'
                 ELSE /\ f = ClearFrame(f.text)
                      /\ num_nonce' = num_nonce ]_vars

\* C14: make_chunks splits a text into chunks of at most 130 UTF-8 bytes
\* each, every chunk made of whole code points, whose concatenation in
\* order is the text; a text of 310 bytes yields exactly 3 chunks.
RECURSIVE Concat(_)
Concat(chunks) ==
  IF chunks = <<>> THEN <<>> ELSE Head(chunks) \o Concat(Tail(chunks))

C14_ChunksRebuildText ==
  last.op = "make_chunks" =>
    /\ \A i \in 1..Len(last.ret) :
         /\ Len(encode(last.ret[i])) <= chunk_bytes
         /\ \A k \in 1..Len(last.ret[i]) : last.ret[i][k] \in 1..4
    /\ Concat(last.ret) = last.arg
    /\ Len(encode(last.arg)) = 310 => Len(last.ret) = 3

C14_Witness ==
  /\ last.op = "make_chunks"
  /\ Len(encode(last.arg)) = 310
  /\ Len(last.ret) = 3
  /\ Len(encode(last.ret[1])) < chunk_bytes
  /\ \E k \in 1..Len(last.arg) : last.arg[k] = 4

\* The frames setJsonNotification must queue for the chunks of its text,
\* each multipart frame under its own nonce when the device encrypts.
JsonQueued(encrypts) ==
  LET chunks == make_chunks(last.arg, <<>>)
      total == Len(chunks)
      Enc(f, k) == /\ f.marker = "1D" /\ f.cipher # "none"
                   /\ f.nonce = next_even(last.nonce) + 2 * (k - 1)
      Clear(f) == f.marker = "" /\ f.cipher = "none"
  IN  IF total = 1
        THEN /\ Len(Replies) = 1
             /\ Replies[1].text = JsonText("wifi:", last.arg)
             /\ messageCounter = last.seq
             /\ IF locked THEN Enc(Replies[1], 1) ELSE Clear(Replies[1])
        ELSE /\ Len(Replies) = total
             /\ messageCounter = last.seq + 1
             /\ \A i \in 1..total :
                  /\ Replies[i].text =
                       JsonText("multiwifi:" \o ToString(last.seq + 1) \o "|"
                                  \o ToString(i) \o "|" \o ToString(total)
                                  \o "|", chunks[i])
                  /\ IF encrypts THEN Enc(Replies[i], i)
                                 ELSE Clear(Replies[i])

C13_RoundTrip ==
  (last.op = "decryptFromReceived" /\ last.own /\ last.fresh)
    => (~last.raised /\ last.ret = last.arg.plain)

\* C16: a tick of the pump while notifying removes the head of a non-empty
\* queue and transmits it, and nothing else; it transmits nothing when the
\* queue is empty or notifications are off.
C16_OneItemPerTick ==
  [][ last'.op = "info_wifi_callback"
        => IF notifying /\ notifications # <<>>
             THEN /\ tx' = <<Head(notifications)>>
                  /\ notifications' = Tail(notifications)
             ELSE /\ tx' = <<>>
                  /\ notifications' = notifications ]_vars

C16_Witness ==
  /\ last.op = "info_wifi_callback"
  /\ last.pre.qlen = 2
  /\ Len(tx) = 1
  /\ Len(notifications) = 1

\* C17: within a notification session the queue is first in, first out: a
\* write handler only appends behind what is queued and transmits nothing,
\* a tick only takes the head, and whatever else is transmitted comes from
\* the bypass sends of StartNotify, made when the session starts.
C17_QueueIsFIFO ==
  [][ /\ last'.op = "WriteValue"
        => /\ tx' = <<>>
           /\ Len(notifications') >= Len(notifications)
           /\ SubSeq(notifications', 1, Len(notifications)) = notifications
      /\ last'.op = "info_wifi_callback"
        => /\ notifications # <<>> => notifications' \in
                                        {notifications, Tail(notifications)}
           /\ tx' # <<>> => /\ notifications # <<>>
                            /\ tx' = <<Head(notifications)>>
      /\ (tx' # <<>> /\ last'.op # "info_wifi_callback")
        => /\ last'.op = "StartNotify"
           /\ notifications' = <<>> ]_vars

C17_Witness ==
  /\ last.op = "info_wifi_callback"
  /\ tx # <<>> /\ notifications # <<>>
  /\ tx[1].marker = "1D" /\ notifications[1].marker = "1D"
  /\ tx[1].nonce < notifications[1].nonce

\* The replies the protocol documents for a write that cannot be read.
Vocabulary ==
  {"crypto:Locked", "crypto:Unlocked", "crypto:NoPassword"}
    \cup {"crypto:Garbled" \o ToString(n) : n \in 0..(MaxVal + 1)}

\* C18, as claimed: whatever bytes a peer writes, in every state, no
\* exception leaves the write handler; a write that cannot be decrypted or
\* decoded is dropped or answered with a reply from the vocabulary Locked,
\* Unlocked, Garbled{n}, NoPassword.
C18_NoExceptionEscapes ==
  IsWrite =>
    /\ ~escaped
    /\ dispatched = SEP_unknown =>
         \A i \in 1..Len(Replies) : Replies[i].text[2] \in Vocabulary

\* C19, as claimed: the payload of a write is handed to register_SSID as at
\* most two fields, and a payload without a separator as that field and an
\* empty second field.
C19_AtMostTwoFields ==
  (IsWrite /\ ~escaped) =>
    /\ Len(dispatched) <= 2
    /\ (last.arg.t = "text" /\ ~last.pre.crypto /\ Len(last.arg.plain) = 1)
         => dispatched = <<last.arg.plain[1], "">>

\* C20, as claimed: a start that finds a state document it cannot parse, or
\* one without "locked" or without "last_nonce", renames it aside, starts
\* with locked false and last_nonce 0, and writes these to a new document.
C20_CorruptDocumentGivesDefaults ==
  (last.op = "PiInfo"
     /\ last.doc.kind \in {"unparsable", "nolocked", "nononce"}) =>
    /\ last.aside
    /\ ~locked /\ last_nonce = 0
    /\ disk = DiskDoc("valid", FALSE, 0)

\* C21, as claimed: a scan thread leaves the protocol state alone; it does
\* not encrypt, does not advance the nonce counter or the seq counter, and
\* appends nothing to the notification queue.
C21_ScanThreadLeavesProtocolState ==
  last.op = "do_scan_v1" =>
    /\ Len(notifications) = last.pre.qlen
    /\ num_nonce = last.nonce
    /\ messageCounter = last.seq

\* C22, as claimed: no two disconnect timers exist at once: every Timer the
\* manager lets go of was cancelled first, and after the garbled maximum
\* is exceeded (the connection is closed) no timer is armed.
C22_OneTimerAlive ==
  IsWrite =>
    /\ orphaned = 0
    /\ closed > 0 => ~timer

\* C23, as claimed: after a write that decrypts under the password with a
\* fresh nonce, the RetryCounter is Normal with value 0, whatever it was
\* before and whether or not a timer was armed.
C23_SuccessResetsCounter ==
  (IsWrite /\ pw /\ last.arg.t = "cipher" /\ ~last.stale) =>
    (kind = "normal" /\ val = 0)

\* C24, as claimed: while Unlocked with a password, a write that decrypts
\* with a fresh nonce to something other than LockRequest counts as a
\* failed lock attempt: the lock-request counter is incremented, the reply
\* is "Unlocked" and the device stays Unlocked.
C24_OtherPayloadIsFailedLock ==
  (/\ IsWrite /\ pw /\ ~last.pre.locked /\ ~last.pre.crypto
   /\ last.arg.t = "cipher" /\ ~last.stale
   /\ last.arg.plain # LockRequestBytes) =>
    LET rc == incrementCounter([kind |-> last.pre.kind, val |-> last.pre.val],
                               "lock_request")
    IN  /\ kind = rc.kind /\ val = rc.val
        /\ Len(Replies) = 1
        /\ Replies[1].text = <<"", "crypto:Unlocked">>
        /\ ~locked

\* The last write came in while Locked with the cipher set up.
WriteWhileLocked == IsWrite /\ last.pre.locked /\ last.pre.crypto

C26_ArmedTimerCloses == timer ~> (~timer \/ closed > 0)

\* The write handled in the next state is the session-end message,
\* encrypted under the password with a nonce that is fresh now.
SessionEnds ==
  /\ pw /\ last'.op = "WriteValue" /\ last'.arg.t = "cipher"
  /\ last'.arg.plain = quitting_msg /\ ~last'.stale

\* C27, as claimed: a decrypted session-end message removes the
\* replay-table entry of the sending identifier and leaves every other
\* entry as it was, and nothing else removes an entry while the process
\* lives.
C27_SessionEndForgetsSender ==
  [][/\ SessionEnds =>
         /\ DOMAIN last_received_dict' =
              DOMAIN last_received_dict \ {last'.arg.nonce.id}
         /\ \A i \in DOMAIN last_received_dict' :
              last_received_dict'[i] = last_received_dict[i]
     /\ ~SessionEnds =>
         DOMAIN last_received_dict \subseteq DOMAIN last_received_dict'
    ]_vars

C27_Witness ==
  /\ IsWrite /\ pw /\ last.arg.t = "cipher" /\ ~last.stale
  /\ last.arg.plain = quitting_msg /\ last.arg.nonce.id = 1
  /\ last.arg.nonce.ctr > 0
  /\ DOMAIN last_received_dict = {2}

\* The seq values a frame's text carries: one for a part of a multipart
\* message or the placeholder, none for any other frame.
SeqOf(f) ==
  IF Len(f.text) < 2 THEN {}
  ELSE {p \in (1..(MaxSeq + 3)) \X (1..3) \X (1..3) :
          LET prefix == "multiwifi:" \o ToString(p[1]) \o "|"
                          \o ToString(p[2]) \o "|" \o ToString(p[3]) \o "|"
          IN  f.text[2] \in {prefix, prefix \o Placeholder}}

\* Frames f and then g are not parts of two messages with the same seq or
\* with a decreasing seq: g carries a greater seq, or is a later part of
\* the message f is a part of.
InSeqOrder(f, g) ==
  \A p \in SeqOf(f), q \in SeqOf(g) :
    \/ p[1] < q[1]
    \/ p[1] = q[1] /\ p[3] = q[3] /\ p[2] < q[2]

\* C28, as claimed: within a notification session two distinct multipart
\* messages never carry the same seq and a later one carries a greater
\* seq: the parts in the queue are in seq order, no part carries a seq
\* above the counter, and what an operation sends and then queues carries
\* seqs above the counter it found, the sent ones below the queued ones.
C28_SeqDistinctAndIncreasing ==
  notifying =>
    /\ \A i, j \in DOMAIN notifications :
         i < j => InSeqOrder(notifications[i], notifications[j])
    /\ \A i \in DOMAIN notifications :
         \A p \in SeqOf(notifications[i]) : p[1] <= messageCounter
    /\ \A i \in DOMAIN tx : \A p \in SeqOf(tx[i]) : p[1] <= messageCounter
    /\ last.op \in {"setJsonNotification", "do_scan_v2"}
         \/ (last.op = "WriteValue" /\ "seq" \in DOMAIN last) =>
         /\ \A i \in DOMAIN Replies :
              \A p \in SeqOf(Replies[i]) : p[1] > last.seq
         /\ \A i \in DOMAIN tx : \A p \in SeqOf(tx[i]) : p[1] > last.seq
         /\ \A i \in DOMAIN tx, j \in DOMAIN Replies :
              \A p \in SeqOf(tx[i]), q \in SeqOf(Replies[j]) : p[1] < q[1]

\* A step of StartNotify.
StartNotifyStep == last'.op = "StartNotify"

\* What StartNotify leaves alone: the lock state, the replay table and the
\* request counter.
StartNotifyFrame ==
  /\ locked' = locked /\ crypto' = crypto /\ disk' = disk
  /\ last_received_dict' = last_received_dict
  /\ kind' = kind /\ val' = val /\ timer' = timer

AtRuntime ==
  last.op \in {"WriteValue", "info_wifi_callback", "StartNotify",
               "StopNotify"}

\* C30: a running device goes from Unlocked to Locked only in a write of a
\* ciphertext made under the configured password whose nonce is fresh for
\* its identifier and whose plaintext is the separator and LockRequest; no
\* other write, no tick and no other event locks it.
C30_LockedOnlyByLockRequest ==
  (AtRuntime /\ ~last.pre.locked /\ locked) =>
    /\ IsWrite /\ pw
    /\ last.arg.t = "cipher"
    /\ last.arg.plain = LockRequestBytes
    /\ ~last.stale

\* A ciphertext of LockRequest whose nonce counter is above 0 locked the
\* Unlocked device.
C30_Witness ==
  /\ IsWrite /\ ~last.pre.locked /\ locked
  /\ last.arg.t = "cipher" /\ last.arg.plain = LockRequestBytes
  /\ last.arg.nonce.ctr > 0

\* The write decrypted under the configured password with a nonce fresh
\* for its identifier.
Authenticated == pw /\ last.arg.t = "cipher" /\ ~last.stale

\* C31, as claimed: while Locked a write that did not decrypt under the
\* password with a fresh nonce leaves the device Locked and hands
\* register_SSID nothing but the "unknown" marker or an empty message.
C31_LockedAdmitsOnlyAuthenticated ==
  (IsWrite /\ last.pre.locked /\ ~Authenticated) =>
    /\ locked
    /\ dispatched \in {<<>>, SEP_unknown, <<"", "">>}

\* C32, as claimed: in one process lifetime no nonce is accepted twice,
\* whatever is received in between, session-end messages included.
C32_NoNonceAcceptedTwice ==
  \A i, j \in DOMAIN rxlog : i < j => rxlog[i] # rxlog[j]

\* C33, as claimed: a write whose nonce is turned down as stale leaves the
\* request counter, the armed timer and the lock state as they were.
C33_StaleLeavesCounterAndTimer ==
  (IsWrite /\ last.stale) =>
    /\ kind = last.pre.kind /\ val = last.pre.val
    /\ timer = last.pre.timer
    /\ locked = last.pre.locked

\* An authenticated UnlockRequest was handled while Locked, with
\* notifications enabled.
UnlockHandled ==
  /\ IsWrite /\ Authenticated
  /\ last.pre.locked /\ last.pre.crypto
  /\ last.arg.plain = <<"", "UnlockRequest">>
  /\ notifying

\* C34, as claimed: once an authenticated UnlockRequest is handled while
\* Locked and the pump keeps ticking with notifications enabled, the device
\* becomes Unlocked, whatever else is written or queued meanwhile; the
\* peer disabling or re-enabling notifications and a restart end the case.
C34_UnlockRequestUnlocks ==
  UnlockHandled ~>
    (~locked \/ ~notifying \/ last.op \in {"StartNotify", "crash", "quitBT"})

\* C35, as claimed: a frame goes out on the notify channel as ciphertext
\* (first byte 0x1D) exactly when the device is Locked at the moment of
\* transmission; the operations here build no frame with never_encrypt.
C35_CiphertextIffLocked ==
  last.op \in {"info_wifi_callback", "StartNotify"} =>
    \A i \in DOMAIN tx : (FirstByte(tx[i]) = "1D") <=> last.pre.locked

\* The frame is ciphertext: 0x1D, the nonce, the cipher's output.
IsCiphertext(f) == f.marker = "1D"

\* C36, as claimed: the nonces of the encrypted frames the device
\* transmits increase strictly in transmission order, bypass sends
\* included: within what one handler transmits, and from what a handler
\* transmits to what the next handler transmits.
C36_TransmittedNoncesIncrease ==
  [][/\ \A i, j \in DOMAIN tx' :
          (i < j /\ IsCiphertext(tx'[i]) /\ IsCiphertext(tx'[j])) =>
            tx'[i].nonce < tx'[j].nonce
     /\ \A i \in DOMAIN tx, j \in DOMAIN tx' :
          (IsCiphertext(tx[i]) /\ IsCiphertext(tx'[j])) =>
            tx[i].nonce < tx'[j].nonce]_vars

\* C37, as claimed: with the scan thread and the event loop both
\* encrypting while Locked, under every interleaving no two encrypted
\* frames carry the same nonce.
C37_ThreadsShareNoNonce ==
  \A i, j \in DOMAIN notifications :
    (i < j /\ IsCiphertext(notifications[i])
           /\ IsCiphertext(notifications[j])) =>
      notifications[i].nonce # notifications[j].nonce

\* C38, as claimed: when the scan thread queues its list while the event
\* loop is queueing a multipart message, the parts of the event loop's
\* message (the first `at` frames and the last ones of what was queued) all
\* carry one seq, and no part of the thread's message carries that seq.
C38_ThreadsShareNoSeq ==
  (last.op = "setJsonNotification" /\ "at" \in DOMAIN last) =>
    LET total == Len(make_chunks(last.arg, <<>>))
        after == Len(Replies) - (total - last.at)
        mine == (1..last.at) \cup ((after + 1)..Len(Replies))
        theirs == (last.at + 1)..after
    IN  /\ \A i, j \in mine :
             \A p \in SeqOf(Replies[i]), q \in SeqOf(Replies[j]) : p[1] = q[1]
        /\ \A i \in mine, j \in theirs :
             \A p \in SeqOf(Replies[i]), q \in SeqOf(Replies[j]) : p[1] # q[1]

\* C39, as claimed: at most one pump timer runs at any time, whatever the
\* order of StartNotify, StopNotify and ticks.
C39_OnePumpTimer == pumpTimers <= 1

\* ------------------------------------------------ bridge operations
\* What ended an operation of the bridge and what it did on the way.
Done(t, outcome) ==
  [op |-> "_execute_with_lock", task |-> t, outcome |-> outcome,
   tries |-> bridge.tries[t] + (IF bridge.pc[t] = "connect" THEN 1 ELSE 0),
   errors |-> bridge.errors[t], disconnects |-> bridge.disconnects[t],
   waiting |-> {u \in Tasks : bridge.pc[u] = "acquire"}]

BridgeStep(b, l) ==
  /\ Becomes([Cur EXCEPT !.bridge = b])
  /\ last' = l
  /\ UNCHANGED <<streak, rxlog>>

\* _poll_loop (task 0) or _on_mqtt_command (a command task) calls
\* _execute_with_lock and waits for the device's lock.
CallExecuteWithLock(t) ==
  /\ bridge.pc[t] = "idle"
  /\ BridgeStep([bridge EXCEPT !.pc[t] = "acquire"],
                [op |-> "call", task |-> t])

\* The waiting task enters async with entry["lock"].
EnterLock(t) ==
  /\ bridge.pc[t] = "acquire"
  /\ ~Lock_locked(bridge)
  /\ BridgeStep(Lock_acquire(bridge, t), [op |-> "enter", task |-> t])

\* client = await self._ensure_connected(address)
EnsureConnected(t, r) ==
  /\ bridge.pc[t] = "connect"
  /\ BridgeStep(ensure_connected(bridge, t, r),
                IF bridge.connected \/ r # "other"
                  THEN [op |-> "_ensure_connected", task |-> t]
                  ELSE Done(t, "raised other"))

\* return await operation(client)
Operation(t, r) ==
  /\ bridge.pc[t] = "operate"
  /\ BridgeStep(operation(bridge, t, r),
                IF r = "ok" THEN Done(t, "returned")
                ELSE IF r = "ble" THEN [op |-> "operation", task |-> t]
                ELSE Done(t, "raised other"))

\* except (BleakError, OSError, asyncio.TimeoutError)
ExceptBleakError(t) ==
  /\ bridge.pc[t] = "failed"
  /\ BridgeStep(except_BleakError(bridge, t),
                IF bridge.attempt[t] = 0
                  THEN [op |-> "_disconnect", task |-> t]
                  ELSE Done(t, "raised"))

\* The device drops the link while no operation is awaiting on it.
LinkLost ==
  /\ bridge.connected
  /\ BridgeStep([bridge EXCEPT !.connected = FALSE], [op |-> "link lost"])

Outcomes == {"ok", "ble", "other"}

NextBridge ==
  \/ \E t \in Tasks : CallExecuteWithLock(t)
  \/ \E t \in Tasks : EnterLock(t)
  \/ \E t \in Tasks, r \in Outcomes : EnsureConnected(t, r)
  \/ \E t \in Tasks, r \in Outcomes : Operation(t, r)
  \/ \E t \in Tasks : ExceptBleakError(t)
  \/ LinkLost

SpecBridge == Init /\ [][NextBridge]_vars

\* Task t is inside the async with block, using the device's client.
InsideLock(t) == bridge.pc[t] \in {"connect", "operate", "failed"}

\* C40: operations on one address are serialised by the device's lock: at
\* most one task is inside the lock and uses the client, and it is the
\* one holding the lock; an operation that returned met at most one BLE
\* error and then ran once more after one disconnect; an operation that
\* raised a BLE error met two, after one disconnect and two tries; however
\* the operation ended, its task no longer holds the lock.
C40_SerialisedRetriedOnceReleased ==
  /\ \A t, u \in Tasks : InsideLock(t) /\ InsideLock(u) => t = u
  /\ \A t \in Tasks : InsideLock(t) <=> bridge.lock = t
  /\ last.op = "_execute_with_lock" =>
       /\ bridge.lock # last.task
       /\ bridge.pc[last.task] = "idle"
       /\ last.disconnects = IF last.errors = 0 THEN 0 ELSE 1
       /\ last.outcome = "returned" =>
            last.errors <= 1 /\ last.tries = last.errors + 1
       /\ last.outcome = "raised" =>
            last.errors = 2 /\ last.tries = 2
       /\ last.outcome = "raised other" => last.errors <= 1

\* An operation returned after one BLE error and one retry while the other
\* tasks waited for the lock.
C40_Witness ==
  /\ last.op = "_execute_with_lock"
  /\ last.outcome = "returned"
  /\ last.errors = 1 /\ last.tries = 2 /\ last.disconnects = 1
  /\ last.waiting = Tasks \ {last.task}

\* An operation raised its second BLE error and left the lock free.
C40_WitnessRaised ==
  /\ last.op = "_execute_with_lock"
  /\ last.outcome = "raised"
  /\ bridge.lock = Free

====
